---- MODULE Spec2Model ----
(***************************************************************************)
(* State-machine model of ProMoAIApp (src/app_nicegui.py): one page        *)
(* session on NiceGUI's single-threaded event loop.  A handler runs        *)
(* atomically up to its `await loop.run_in_executor(...)`; the awaited     *)
(* call runs in a worker thread and the coroutine is resumed later by the  *)
(* event loop.  Any number of coroutines may be suspended at once.         *)
(***************************************************************************)
EXTENDS Integers, Sequences, FiniteSets, TLC

\* ------------------------------------------------------------------ bounds

\* Total number of executor calls (generate or update) a behaviour of Spec
\* dispatches, and a behaviour of SpecView.
MaxCalls == 3
MaxViewCalls == 2

\* Longest ledger of a session on which the export handlers are called in
\* SpecExport.
MaxLedger == 2

\* ------------------------------------------------------ values and inputs

None == "None"

\* self.model_gen = None: no generator object (object identities are 1, 2, ...).
NoObj == 0

\* InputType / ViewType members (promoai.general_utils.app_utils).
InputTypes == {"Text", "Model", "Data"}
ViewTypes == {"POWL", "PETRI", "BPMN"}


\* Values the user can type into the text widgets.  self.api_key and
\* self.model_name are written by the on_change handlers of their input fields
\* alone (lines 322, 330) and read at a dispatch alone, and the user can retype
\* either field before any click: the handlers that read them take their values
\* at the click as inputs.
ApiKeys == {"", "k"}
ModelNames == {"", "m1"}
Descriptions == {"", "d"}
Feedbacks == {"", "a", "b"}

\* Uploaded file names, as sequences of tokens; "." is the dot character and
\* every other token stands for a dot-free run of characters.
LogNames == { <<"f", ".", "xes">> }
ModelFileNames == { <<"f", ".", "bpmn">>, <<"f", ".", "PNML">>, <<"f", ".", "txt">>, <<"pnml">> }

\* What an upload event carries in e.content: None (no file object), or a
\* file object holding zero bytes or bytes in one of the three formats.
UploadContents == {None, "empty", "xes", "bpmn", "pnml"}

\* Where a render or an export can raise inside its try block: nowhere, in
\* convert_to_petri_net, in convert_to_bpmn, or in the visualizer / layouter /
\* exporter that follows.
ConvFailures == {"none", "to_petri_net", "to_bpmn", "render"}

\* ---------------------------------------------------------- pure helpers

\* str.lower() on a token.
Lower(t) == IF t = "PNML" THEN "pnml" ELSE IF t = "BPMN" THEN "bpmn" ELSE t

\* name.split(".")[-1]: the tokens after the last dot, the whole name when it
\* holds no dot.
RECURSIVE LastDotComponent(_)
LastDotComponent(name) ==
    IF \E i \in 1..Len(name) : name[i] = "."
    THEN LastDotComponent(Tail(name))
    ELSE name

\* e.name.split(".")[-1].lower()
FileExtension(name) == [i \in 1..Len(LastDotComponent(name)) |-> Lower(LastDotComponent(name)[i])]

\* read_xes / read_bpmn / read_pnml succeed on bytes of their own format only.
ParseOk(reader, content) == content = reader

\* ------------------------------------------------------------------ state

VARIABLES
    selected_mode,      \* self.selected_mode
    model_gen,          \* self.model_gen: None or the identity of a generator object
    feedback_history,   \* self.feedback_history
    feedback_input,     \* self.feedback_input.value
    view_select,        \* self.view_select: None, or the widget's value
    shown,              \* the result container holds the result widgets
    history_shown,      \* the entries the 'Feedback History' expansion lists
    image,              \* what self.image_container displays
    render_raised,      \* history: the render meant to replace that display raised
    temp_files,         \* names of the files in self.temp_dir
    calls,              \* suspended coroutines, each awaiting one executor call
    powl,               \* content of each generator object (what get_powl() returns)
    next_id,            \* identity of the next executor call / generator object
    notified,           \* ui.notify messages emitted by the last handler step
    downloaded,         \* artifact handed to ui.download by the last handler step
    ledger_calls,       \* history: the call that appended each ledger entry
    n_ok,               \* history: updates resumed successfully since the last reset
    abandoned           \* history: calls in flight that were dispatched before the
                        \* last mode switch

vars == <<selected_mode, model_gen, feedback_history,
          feedback_input, view_select, shown, history_shown, image, render_raised,
          temp_files,
          calls, powl, next_id, notified, downloaded, ledger_calls, n_ok,
          abandoned>>

session == <<model_gen, feedback_history, ledger_calls, n_ok>>
results == <<feedback_input, view_select, shown, history_shown, image, render_raised>>

CallIds == 1..MaxCalls

\* An empty image container; a ui.download that did not happen.
NoImage == [obj |-> NoObj, content |-> <<>>, view |-> None]
NoDownload == [file |-> None, obj |-> NoObj, content |-> <<>>]

\* self.model_gen.get_powl() for the object mg.
GetPowl(mg) == IF mg = NoObj THEN <<>> ELSE powl[mg]

\* ProMoAIApp.__init__ followed by create_ui.
Init ==
    /\ selected_mode = "Text"
    /\ model_gen = NoObj
    /\ feedback_history = <<>>
    /\ feedback_input = ""
    /\ view_select = None
    /\ shown = FALSE
    /\ history_shown = <<>>
    /\ image = NoImage
    /\ render_raised = FALSE
    /\ temp_files = {}
    /\ calls = {}
    /\ powl = [i \in CallIds |-> <<>>]
    /\ next_id = 1
    /\ notified = <<>>
    /\ downloaded = NoDownload
    /\ ledger_calls = <<>>
    /\ n_ok = 0
    /\ abandoned = {}

\* ------------------------------------------------------------ user input

\* The user edits the feedback textarea of the result widgets.
EditFeedback(value) ==
    /\ shown
    /\ value /= feedback_input
    /\ feedback_input' = value
    /\ notified' = <<>>
    /\ downloaded' = NoDownload
    /\ UNCHANGED <<selected_mode, session, view_select, shown, history_shown, image,
                   render_raised, temp_files, calls, powl, next_id, abandoned>>

\* ------------------------------------------------------------- rendering

\* Whether rendering view vs raises when f is where the failure lies:
\* convert_to_petri_net runs for every view, convert_to_bpmn for the BPMN view.
ViewRaises(vs, f) ==
    \/ f = "to_petri_net"
    \/ f = "to_bpmn" /\ vs = "BPMN"
    \/ f = "render"

\* Whether exporting to file format file raises: both exports convert to a Petri
\* net, the BPMN export converts on to BPMN.
ExportRaises(file, f) ==
    \/ f = "to_petri_net"
    \/ f = "to_bpmn" /\ file = "bpmn"
    \/ f = "render"

\* update_visualization() on model mg (content as get_powl() returns it) with view
\* widget vs and displayed image img; f says where the conversion raises.
\* convert_to_petri_net runs before the view is looked at; a raise leaves the
\* container as it was and notifies.
UpdateVisualization(mg, content, vs, img, f) ==
    IF mg = NoObj \/ vs = None
    THEN [image |-> img, notes |-> <<>>, raised |-> FALSE]
    ELSE IF ~ViewRaises(vs, f)
         THEN [image |-> [obj |-> mg, content |-> content, view |-> vs], notes |-> <<>>,
               raised |-> FALSE]
         ELSE [image |-> img, notes |-> <<"Visualization error">>, raised |-> TRUE]

\* show_results() without its line 300: the fresh image container stays empty.
ShowResultsWithoutRender(mg, content, f) ==
    [image |-> NoImage, notes |-> <<>>, raised |-> FALSE]

\* show_results(): fresh feedback textarea, fresh view select on POWL, fresh image
\* container, then update_visualization().
ShowResults(mg, content, f) == UpdateVisualization(mg, content, "POWL", NoImage, f)

\* A view change that also clears the ledger.
OnViewChangeClearsLedger(value, f) ==
    /\ shown
    /\ value /= view_select
    /\ view_select' = value
    /\ LET vis == UpdateVisualization(model_gen, GetPowl(model_gen), value, image, f)
       IN /\ image' = vis.image
          /\ render_raised' = vis.raised
          /\ notified' = vis.notes
    /\ downloaded' = NoDownload
    /\ feedback_history' = <<>>
    /\ UNCHANGED <<selected_mode, model_gen, ledger_calls, n_ok, feedback_input, shown,
                   history_shown, temp_files, calls, powl, next_id, abandoned>>

\* view_select's on_change=self.update_visualization, after the widget took the value.
OnViewChange(value, f) ==
    /\ shown
    /\ value /= view_select
    /\ view_select' = value
    /\ LET vis == UpdateVisualization(model_gen, GetPowl(model_gen), value, image, f)
       IN /\ image' = vis.image
          /\ render_raised' = vis.raised
          /\ notified' = vis.notes
    /\ downloaded' = NoDownload
    /\ UNCHANGED <<selected_mode, session, feedback_input, shown, history_shown,
                   temp_files, calls, powl, next_id, abandoned>>

\* An export whose get_powl() on a None model yields an empty model instead of
\* raising.
DownloadHandlerWithoutModel(file, f) ==
    /\ IF ExportRaises(file, f)
       THEN /\ downloaded' = NoDownload
            /\ notified' = <<"Download failed">>
       ELSE /\ downloaded' = [file |-> file, obj |-> model_gen, content |-> GetPowl(model_gen)]
            /\ notified' = <<>>
    /\ UNCHANGED <<selected_mode, session, results, temp_files, calls, powl, next_id,
                   abandoned>>

\* download_bpmn() / download_pnml(): file is "bpmn" or "pnml".  get_powl() on a
\* None model raises inside the try block, as does a failing conversion.
DownloadHandler(file, f) ==
    /\ IF model_gen = NoObj \/ ExportRaises(file, f)
       THEN /\ downloaded' = NoDownload
            /\ notified' = <<"Download failed">>
       ELSE /\ downloaded' = [file |-> file, obj |-> model_gen, content |-> GetPowl(model_gen)]
            /\ notified' = <<>>
    /\ UNCHANGED <<selected_mode, session, results, temp_files, calls, powl, next_id,
                   abandoned>>

\* A click on an export button: the buttons are among the result widgets.
Download(file, f) == shown /\ DownloadHandler(file, f)

DownloadBpmn(f) == Download("bpmn", f)
DownloadPnml(f) == Download("pnml", f)

\* ---------------------------------------------------------- mode switch

\* on_input_type_change without its line 360: the ledger survives the switch.
OnInputTypeChangeKeepsLedger(value) ==
    /\ value /= selected_mode
    /\ selected_mode' = value
    /\ model_gen' = NoObj
    /\ shown' = FALSE
    /\ history_shown' = <<>>
    /\ image' = NoImage
    /\ render_raised' = FALSE
    /\ notified' = <<>>
    /\ downloaded' = NoDownload
    /\ abandoned' = {c.id : c \in calls}
    /\ UNCHANGED <<feedback_history, ledger_calls, n_ok, feedback_input, view_select,
                   temp_files, calls, powl, next_id>>

\* on_input_type_change(value): the radio fires on a change of value only.
OnInputTypeChange(value) ==
    /\ value /= selected_mode
    /\ selected_mode' = value
    /\ model_gen' = NoObj
    /\ feedback_history' = <<>>
    /\ ledger_calls' = <<>>
    /\ n_ok' = 0
    /\ shown' = FALSE
    /\ history_shown' = <<>>
    /\ image' = NoImage
    /\ render_raised' = FALSE
    /\ notified' = <<>>
    /\ downloaded' = NoDownload
    /\ abandoned' = {c.id : c \in calls}
    /\ UNCHANGED <<feedback_input, view_select, temp_files, calls, powl, next_id>>

\* -------------------------------------------------------- executor calls

\* The coroutine suspended at `await loop.run_in_executor(None, fn, *args)`:
\* op names fn; arg, api_key and model_name are the arguments as evaluated at
\* dispatch (the upload generators take the parsed file only); target is the
\* object whose bound method update was taken.  phase is the state of the worker
\* thread's call.  The provider argument is not kept: nothing reads it back.
Call(id, op, arg, key, name, target) ==
    [id |-> id, op |-> op, arg |-> arg, api_key |-> key, model_name |-> name,
     target |-> target, phase |-> "running"]

\* Dispatching c: run_in_executor submits the call and the coroutine suspends.
Dispatch(c) ==
    /\ next_id <= MaxCalls
    /\ calls' = calls \cup {c}
    /\ next_id' = next_id + 1
    /\ UNCHANGED abandoned

\* The coroutine of c resumes: it is no longer suspended.
Resumed(c) ==
    /\ calls' = calls \ {c}
    /\ abandoned' = abandoned \ {c.id}

\* Lines 89-91, 122-126, 168-172: install the generator object the call returned,
\* clear the ledger, notify msg and show_results().
InstallModel(c, msg, f) ==
    /\ model_gen' = c.id
    /\ feedback_history' = <<>>
    /\ ledger_calls' = <<>>
    /\ n_ok' = 0
    /\ shown' = TRUE
    /\ history_shown' = feedback_history'
    /\ feedback_input' = ""
    /\ view_select' = "POWL"
    /\ LET vis == ShowResults(c.id, GetPowl(c.id), f)
       IN /\ image' = vis.image
          /\ render_raised' = vis.raised
          /\ notified' = <<msg>> \o vis.notes

\* An except branch that also drops the model it failed to replace.
GenerateFailedDropsModel(msg) ==
    /\ notified' = <<msg>>
    /\ model_gen' = NoObj
    /\ UNCHANGED <<feedback_history, ledger_calls, n_ok, results>>

\* Lines 93-94, 128-130, 174-176: the except branch of a generation handler
\* notifies msg (the upload handlers remove temp_dir as well).
GenerateFailed(msg) ==
    /\ notified' = <<msg>>
    /\ UNCHANGED <<session, results>>

\* ------------------------------------------------------- text generation

\* handle_text_generation() up to its await.  description is the value of the
\* description textarea at the click (nothing else reads or writes that widget),
\* key and name are self.api_key and self.model_name.
HandleTextGeneration(description, key, name) ==
    /\ selected_mode = "Text"
    /\ downloaded' = NoDownload
    /\ IF description = ""
       THEN /\ notified' = <<"Please enter a process description!">>
            /\ UNCHANGED <<calls, next_id, abandoned>>
       ELSE IF key = ""
            THEN /\ notified' = <<"Please enter an API key!">>
                 /\ UNCHANGED <<calls, next_id, abandoned>>
            ELSE /\ Dispatch(Call(next_id, "generate_model_from_text", description, key, name,
                                  NoObj))
                 /\ notified' = <<"Generating model from text...">>
    /\ UNCHANGED <<selected_mode, session, results,
                   temp_files, powl>>

\* handle_text_generation() from its await on: the call returned a generator
\* object (ok) or raised.
TextResume(c, ok, f) ==
    /\ c \in calls
    /\ c.op = "generate_model_from_text"
    /\ Resumed(c)
    /\ downloaded' = NoDownload
    /\ IF ok
       THEN InstallModel(c, "Model generated successfully!", f)
       ELSE GenerateFailed("Error: generation failed")
    /\ UNCHANGED <<selected_mode, temp_files, powl, next_id>>

\* ---------------------------------------------------------------- uploads

\* handle_log_upload(e) up to its await: the file is written into temp_dir and
\* read_xes parses it; a raise removes temp_dir and notifies.
HandleLogUpload(name, content) ==
    /\ selected_mode = "Data"
    /\ downloaded' = NoDownload
    /\ IF content = None
       THEN /\ notified' = <<"No file uploaded!">>
            /\ UNCHANGED <<temp_files, calls, next_id, abandoned>>
       ELSE IF ~ParseOk("xes", content)
            THEN /\ temp_files' = {}
                 /\ notified' = <<"Processing event log...", "Error during discovery: read_xes failed">>
                 /\ UNCHANGED <<calls, next_id, abandoned>>
            ELSE /\ Dispatch(Call(next_id, "generate_model_from_event_log", content, None,
                                  None, NoObj))
                 /\ temp_files' = temp_files \cup {name}
                 /\ notified' = <<"Processing event log...">>
    /\ UNCHANGED <<selected_mode, session, results, powl>>

\* handle_log_upload(e) from its await on.
LogResume(c, ok, f) ==
    /\ c \in calls
    /\ c.op = "generate_model_from_event_log"
    /\ Resumed(c)
    /\ downloaded' = NoDownload
    /\ temp_files' = {}
    /\ IF ok
       THEN InstallModel(c, "Model discovered successfully!", f)
       ELSE GenerateFailed("Error during discovery: generation failed")
    /\ UNCHANGED <<selected_mode, powl, next_id>>

\* handle_model_upload(e) up to its await: the extension picks the reader and
\* the generator; any other extension raises.
HandleModelUpload(name, content) ==
    /\ selected_mode = "Model"
    /\ downloaded' = NoDownload
    /\ IF content = None
       THEN /\ notified' = <<"No file uploaded!">>
            /\ UNCHANGED <<temp_files, calls, next_id, abandoned>>
       ELSE LET file_extension == FileExtension(name) IN
            IF file_extension = <<"bpmn">> /\ ParseOk("bpmn", content)
            THEN /\ Dispatch(Call(next_id, "generate_model_from_bpmn", content, None,
                                  None, NoObj))
                 /\ temp_files' = temp_files \cup {name}
                 /\ notified' = <<"Processing model file...">>
            ELSE IF file_extension = <<"pnml">> /\ ParseOk("pnml", content)
            THEN /\ Dispatch(Call(next_id, "generate_model_from_petri_net", content, None,
                                  None, NoObj))
                 /\ temp_files' = temp_files \cup {name}
                 /\ notified' = <<"Processing model file...">>
            ELSE /\ temp_files' = {}
                 /\ notified' = <<"Processing model file...",
                                  IF file_extension \in {<<"bpmn">>, <<"pnml">>}
                                  THEN "Error: read failed"
                                  ELSE "Error: Unsupported file format">>
                 /\ UNCHANGED <<calls, next_id, abandoned>>
    /\ UNCHANGED <<selected_mode, session, results, powl>>

\* handle_model_upload(e) whose except branch leaves temp_dir in place.
ModelResumeKeepsFilesOnFailure(c, ok, f) ==
    /\ c \in calls
    /\ c.op \in {"generate_model_from_bpmn", "generate_model_from_petri_net"}
    /\ Resumed(c)
    /\ downloaded' = NoDownload
    /\ IF ok
       THEN temp_files' = {} /\ InstallModel(c, "Model loaded successfully!", f)
       ELSE UNCHANGED temp_files /\ GenerateFailed("Error: generation failed")
    /\ UNCHANGED <<selected_mode, powl, next_id>>

\* handle_model_upload(e) from its await on.
ModelResume(c, ok, f) ==
    /\ c \in calls
    /\ c.op \in {"generate_model_from_bpmn", "generate_model_from_petri_net"}
    /\ Resumed(c)
    /\ downloaded' = NoDownload
    /\ temp_files' = {}
    /\ IF ok
       THEN InstallModel(c, "Model loaded successfully!", f)
       ELSE GenerateFailed("Error: generation failed")
    /\ UNCHANGED <<selected_mode, powl, next_id>>

\* --------------------------------------------------------------- feedback

\* update_model_with_feedback() up to its await; key and name are self.api_key
\* and self.model_name.  Taking self.model_gen.update of a None model raises
\* inside the try block.
UpdateModelWithFeedback(key, name) ==
    /\ shown
    /\ downloaded' = NoDownload
    /\ IF feedback_input = ""
       THEN /\ notified' = <<"Please enter feedback!">>
            /\ UNCHANGED <<calls, next_id, abandoned>>
       ELSE IF key = ""
            THEN /\ notified' = <<"Please enter an API key!">>
                 /\ UNCHANGED <<calls, next_id, abandoned>>
            ELSE IF model_gen = NoObj
                 THEN /\ notified' = <<"Updating model...", "Update failed">>
                      /\ UNCHANGED <<calls, next_id, abandoned>>
                 ELSE /\ Dispatch(Call(next_id, "update", feedback_input, key, name,
                                           model_gen))
                      /\ notified' = <<"Updating model...">>
    /\ UNCHANGED <<selected_mode, session, results,
                   temp_files, powl>>

\* What get_powl() returns while an update is half applied.
Torn == "torn"

\* An update that changes the target object in two visible steps.
GatewayUpdateInSteps(c, ok) ==
    /\ c \in calls
    /\ c.op = "update"
    /\ c.phase = "running"
    /\ LET content == powl[c.target]
           started == content /= <<>> /\ content[Len(content)] = Torn
       IN IF ok /\ ~started
          THEN /\ powl' = [powl EXCEPT ![c.target] = Append(content, Torn)]
               /\ UNCHANGED calls
          ELSE /\ calls' = (calls \ {c})
                             \cup {[c EXCEPT !.phase = IF ok THEN "returned" ELSE "raised"]}
               /\ powl' = IF ok
                          THEN [powl EXCEPT ![c.target] =
                                    Append(SubSeq(content, 1, Len(content) - 1), c.arg)]
                          ELSE powl
    /\ UNCHANGED <<selected_mode, session, results, temp_files, next_id, notified,
                   downloaded, abandoned>>

\* The worker thread runs target.update(feedback, ...): it returns after changing
\* the target object in place, at once, or raises leaving the object as it was.
GatewayUpdate(c, ok) ==
    /\ c \in calls
    /\ c.op = "update"
    /\ c.phase = "running"
    /\ calls' = (calls \ {c}) \cup {[c EXCEPT !.phase = IF ok THEN "returned" ELSE "raised"]}
    /\ powl' = IF ok THEN [powl EXCEPT ![c.target] = Append(@, c.arg)] ELSE powl
    /\ UNCHANGED <<selected_mode, session, results, temp_files, next_id, notified,
                   downloaded, abandoned>>

\* An except branch that records the feedback although the update raised.
UpdateFailedAppends ==
    /\ notified' = <<"Update failed">>
    /\ feedback_history' = Append(feedback_history, feedback_input)
    /\ UNCHANGED <<model_gen, ledger_calls, n_ok, results>>

\* Lines 206-207: the except branch of update_model_with_feedback.
UpdateFailed ==
    /\ notified' = <<"Update failed">>
    /\ UNCHANGED <<session, results>>

\* update_model_with_feedback() from its await on.
UpdateResume(c, f) ==
    /\ c \in calls
    /\ c.op = "update"
    /\ c.phase /= "running"
    /\ Resumed(c)
    /\ downloaded' = NoDownload
    /\ IF c.phase = "returned"
       THEN /\ feedback_history' = Append(feedback_history, feedback_input)
            /\ ledger_calls' = Append(ledger_calls, c.id)
            /\ n_ok' = n_ok + 1
            /\ feedback_input' = ""
            /\ LET vis == UpdateVisualization(model_gen, GetPowl(model_gen), view_select,
                                              image, f)
               IN /\ image' = vis.image
                  /\ render_raised' = vis.raised
                  /\ notified' = <<"Model updated successfully!">> \o vis.notes
            /\ UNCHANGED <<model_gen, view_select, shown, history_shown>>
       ELSE UpdateFailed
    /\ UNCHANGED <<selected_mode, temp_files, powl, next_id>>

\* ---------------------------------------------------------- specification

\* The session handlers: generation in the three input modes, feedback, mode
\* switch, with the renders they trigger.  At most MaxCalls executor calls.
Next ==
    \/ \E v \in Feedbacks : EditFeedback(v)
    \/ \E v \in InputTypes : OnInputTypeChange(v)
    \/ \E d \in Descriptions, k \in ApiKeys, m \in ModelNames : HandleTextGeneration(d, k, m)
    \/ \E c \in calls, ok \in BOOLEAN, f \in ConvFailures : TextResume(c, ok, f)
    \/ \E n \in LogNames, b \in UploadContents : HandleLogUpload(n, b)
    \/ \E c \in calls, ok \in BOOLEAN, f \in ConvFailures : LogResume(c, ok, f)
    \/ \E n \in ModelFileNames, b \in UploadContents : HandleModelUpload(n, b)
    \/ \E c \in calls, ok \in BOOLEAN, f \in ConvFailures : ModelResume(c, ok, f)
    \/ \E k \in ApiKeys, m \in ModelNames : UpdateModelWithFeedback(k, m)
    \/ \E c \in calls, ok \in BOOLEAN : GatewayUpdate(c, ok)
    \/ \E c \in calls, f \in ConvFailures : UpdateResume(c, f)

Spec == Init /\ [][Next]_vars

\* The whole page: the session handlers together with the view selector and the
\* two export buttons.  At most MaxViewCalls executor calls.
WithinViewCalls == next_id <= MaxViewCalls + 1

ViewNext ==
    \/ \E v \in Feedbacks : EditFeedback(v)
    \/ \E v \in InputTypes : OnInputTypeChange(v)
    \/ \E v \in ViewTypes, f \in ConvFailures : OnViewChange(v, f)
    \/ \E f \in ConvFailures : DownloadBpmn(f)
    \/ \E f \in ConvFailures : DownloadPnml(f)
    \/ (\E d \in Descriptions, k \in ApiKeys, m \in ModelNames : HandleTextGeneration(d, k, m))
       /\ WithinViewCalls'
    \/ \E c \in calls, ok \in BOOLEAN, f \in ConvFailures : TextResume(c, ok, f)
    \/ (\E n \in LogNames, b \in UploadContents : HandleLogUpload(n, b)) /\ WithinViewCalls'
    \/ \E c \in calls, ok \in BOOLEAN, f \in ConvFailures : LogResume(c, ok, f)
    \/ (\E n \in ModelFileNames, b \in UploadContents : HandleModelUpload(n, b))
       /\ WithinViewCalls'
    \/ \E c \in calls, ok \in BOOLEAN, f \in ConvFailures : ModelResume(c, ok, f)
    \/ (\E k \in ApiKeys, m \in ModelNames : UpdateModelWithFeedback(k, m)) /\ WithinViewCalls'
    \/ \E c \in calls, ok \in BOOLEAN : GatewayUpdate(c, ok)
    \/ \E c \in calls, f \in ConvFailures : UpdateResume(c, f)

SpecView == Init /\ [][ViewNext]_vars

\* The export handlers as methods of the object, called on any session the
\* object can hold between two handlers: without a model (as after __init__ or a
\* mode switch, where the page offers no export button), or with the model of
\* call 1 and the ledger of the updates applied to it one after the other.
LedgersUpTo(n) == UNION { [1..k -> Feedbacks \ {""}] : k \in 0..n }

ExportInit ==
    /\ selected_mode \in InputTypes
    /\ model_gen \in {NoObj, 1}
    /\ feedback_history \in (IF model_gen = NoObj THEN {<<>>} ELSE LedgersUpTo(MaxLedger))
    /\ feedback_input \in (IF model_gen = NoObj THEN {""} ELSE Feedbacks)
    /\ view_select \in (IF model_gen = NoObj THEN {None} ELSE ViewTypes)
    /\ shown = (model_gen /= NoObj)
    /\ history_shown = <<>>
    /\ image = (IF model_gen = NoObj THEN NoImage
                ELSE [obj |-> model_gen, content |-> feedback_history, view |-> view_select])
    /\ render_raised = FALSE
    /\ temp_files = {}
    /\ calls = {}
    /\ powl = [i \in CallIds |-> IF i = model_gen THEN feedback_history ELSE <<>>]
    /\ next_id = (IF model_gen = NoObj THEN 1 ELSE Len(feedback_history) + 2)
    /\ notified = <<>>
    /\ downloaded = NoDownload
    /\ ledger_calls = [i \in 1..Len(feedback_history) |-> i + 1]
    /\ n_ok = Len(feedback_history)
    /\ abandoned = {}

ExportNext ==
    \/ \E f \in ConvFailures : DownloadHandler("bpmn", f)
    \/ \E f \in ConvFailures : DownloadHandler("pnml", f)

SpecExport == ExportInit /\ [][ExportNext]_vars

\* ============================================================== properties

\* ------------------------------------------------------------- vocabulary

\* The notifications a failed or refused generate / update emits.
OpErrorMessages ==
    { "Please enter a process description!", "Please enter an API key!",
      "Please enter feedback!", "No file uploaded!", "Error: generation failed",
      "Error: read failed", "Error: Unsupported file format",
      "Error during discovery: read_xes failed",
      "Error during discovery: generation failed", "Update failed" }

OpError == \E i \in 1..Len(notified) : notified[i] \in OpErrorMessages

\* SessionState of the spec, read off the page: busy while a coroutine is
\* suspended on an executor call, Ready when idle with a model and no error.
Busy == calls /= {}
Ready == model_gen /= NoObj /\ ~Busy /\ ~OpError

\* The resumption of a generation handler, in any of the three input modes.
GenerateResume(c, ok, f) ==
    TextResume(c, ok, f) \/ LogResume(c, ok, f) \/ ModelResume(c, ok, f)

\* The bytes of an upload the readers reject, for the log and the model handler.
LogUploadFails(b) == b /= None /\ ~ParseOk("xes", b)
ModelUploadFails(n, b) ==
    /\ b /= None
    /\ ~(FileExtension(n) = <<"bpmn">> /\ ParseOk("bpmn", b))
    /\ ~(FileExtension(n) = <<"pnml">> /\ ParseOk("pnml", b))

\* A file name's extension as file systems have it: the text after the last
\* dot, and none when the name holds no dot.
HasExtension(name, ext) ==
    /\ Len(name) >= 2
    /\ name[Len(name) - 1] = "."
    /\ Lower(name[Len(name)]) = ext

ModelSessionUnchanged == UNCHANGED <<model_gen, powl, feedback_history>>

\* ---------------------------------------------------------------------- C1
\* C1: when a generate completes successfully (any input mode, any prior
\* state), the session holds the model the call returned, an empty ledger, and
\* is Ready (not busy, no error).
C1_GenerateSuccessLeavesReady ==
    [][\A c \in calls, f \in ConvFailures :
          GenerateResume(c, TRUE, f)
          => (model_gen' = c.id /\ feedback_history' = <<>> /\ Ready')]_vars

\* ---------------------------------------------------------------------- C2
\* C2: the ledger's length is the number of updates completed successfully since
\* the last successful generation or mode selection, and its entries stand in
\* the order in which their update calls were issued.
C2_LedgerCountsUpdatesInIssueOrder ==
    /\ Len(feedback_history) = n_ok
    /\ Len(ledger_calls) = Len(feedback_history)
    /\ \A i, j \in 1..Len(ledger_calls) : i < j => ledger_calls[i] < ledger_calls[j]

\* ---------------------------------------------------------------------- C3
\* C3: an update call that fails leaves the canonical model (identity and
\* content) and the ledger as they were: no step that changes the model, its
\* content or the ledger is the dispatch of an update, a raise of the worker's
\* call or the resumption of the handler in its except branch.
C3_FailedUpdateKeepsModelAndLedger ==
    [][~ModelSessionUnchanged
       => ~(\/ \E k \in ApiKeys, m \in ModelNames : UpdateModelWithFeedback(k, m)
            \/ \E c \in calls, f \in ConvFailures :
                   GatewayUpdate(c, FALSE) \/ (c.phase = "raised" /\ UpdateResume(c, f)))]_vars

\* A failed update has resumed on a session that holds a model and one ledger
\* entry.
C3_Witness ==
    /\ notified = <<"Update failed">>
    /\ model_gen /= NoObj
    /\ Len(feedback_history) = 1

\* ---------------------------------------------------------------------- C4
\* C4: a generate that fails (the executor call raises, or the uploaded file
\* does not parse or has an unsupported extension), in any input mode, leaves
\* the installed model and the ledger as they were, and a session without a
\* model stays without one: no step that changes the model, its content or the
\* ledger is a failing step of a generation handler.
C4_FailedGenerateKeepsModelAndLedger ==
    [][~ModelSessionUnchanged
       => ~(\/ \E c \in calls, f \in ConvFailures : GenerateResume(c, FALSE, f)
            \/ \E n \in LogNames, b \in UploadContents :
                   HandleLogUpload(n, b) /\ LogUploadFails(b)
            \/ \E n \in ModelFileNames, b \in UploadContents :
                   HandleModelUpload(n, b) /\ ModelUploadFails(n, b))]_vars

\* A generation has failed on a session that keeps its model and its ledger.
C4_Witness ==
    /\ notified = <<"Error: generation failed">>
    /\ model_gen /= NoObj
    /\ feedback_history /= <<>>

\* ---------------------------------------------------------------------- C5
\* C5: a mode selection, in any state and also while calls are in flight, leaves
\* the selected mode, no model and an empty ledger, and dispatches no call.
C5_ModeSwitchResetsSession ==
    [][\A v \in InputTypes :
          OnInputTypeChange(v)
          => /\ selected_mode' = v
             /\ model_gen' = NoObj
             /\ feedback_history' = <<>>
             /\ calls' = calls
             /\ next_id' = next_id]_vars

\* The mode was switched while an update of the then current model was in
\* flight.
C5_Witness ==
    /\ selected_mode = "Data"
    /\ model_gen = NoObj
    /\ feedback_history = <<>>
    /\ \E c \in calls : c.op = "update" /\ c.id \in abandoned

\* ---------------------------------------------------------------------- C6
\* C6: the result of a call that was in flight at a mode switch is discarded
\* when it arrives: it installs no model, appends nothing to the ledger and
\* re-displays nothing.
C6_AbandonedResultIsDiscarded ==
    [][\A c \in calls, ok \in BOOLEAN, f \in ConvFailures :
          (c.id \in abandoned /\ (GenerateResume(c, ok, f) \/ UpdateResume(c, f)))
          => UNCHANGED <<model_gen, feedback_history, shown, image>>]_vars

\* ---------------------------------------------------------------------- C7
\* C7: at most one generate or update call is in flight at any time.
C7_AtMostOneCallInFlight == Cardinality(calls) <= 1

\* ---------------------------------------------------------------------- C8
\* C8: a view selection or an export shows a complete model, the one before or
\* the one after an update in flight, never a half-updated one.
Complete(content) == \A i \in 1..Len(content) : content[i] /= Torn

C9_InvalidInputNeverDispatches ==
    [][/\ \A k \in ApiKeys, m \in ModelNames :
              HandleTextGeneration("", k, m)
              => (UNCHANGED <<calls, next_id>> /\ ModelSessionUnchanged)
       /\ \A n \in LogNames, b \in {None, "empty"} :
              HandleLogUpload(n, b)
              => (UNCHANGED <<calls, next_id>> /\ ModelSessionUnchanged)
       /\ \A n \in ModelFileNames, b \in UploadContents :
              (HandleModelUpload(n, b)
                 /\ (b \in {None, "empty"}
                       \/ ~(HasExtension(n, "bpmn") \/ HasExtension(n, "pnml"))))
              => (UNCHANGED <<calls, next_id>> /\ ModelSessionUnchanged)]_vars

\* --------------------------------------------------------------------- C10
\* C10: no text generation and no update is in flight with an empty API key or
\* an empty model name.
C10_CredentialsNeverEmpty ==
    \A c \in calls :
        c.op \in {"generate_model_from_text", "update"}
        => (c.api_key /= "" /\ c.model_name /= "")

\* --------------------------------------------------------------------- C11
\* C11: a view selection and the two exports leave the model (identity and
\* content), the ledger, the input mode and the calls in flight as they were,
\* for every view type and whether or not the conversion raises: no step that
\* changes one of these is a view change or an export.
C11_ViewAndExportsAreReadOnly ==
    [][~UNCHANGED <<model_gen, powl, feedback_history, selected_mode, calls>>
       => ~(\/ \E v \in ViewTypes, f \in ConvFailures : OnViewChange(v, f)
            \/ \E f \in ConvFailures : DownloadBpmn(f) \/ DownloadPnml(f))]_vars

\* A change to the BPMN view has failed to render on a session that holds a
\* model and a ledger entry.
C11_Witness ==
    /\ notified = <<"Visualization error">>
    /\ view_select = "BPMN"
    /\ model_gen /= NoObj
    /\ feedback_history /= <<>>

\* --------------------------------------------------------------------- C12
\* C12: an export requested while no model is present reports an error and
\* hands nothing to the browser; an export requested while a model is present
\* hands over nothing (the conversion raised) or the artifact of the model that
\* is current at the request, in the requested format.
C12_ExportNeedsModelAndUsesCurrentOne ==
    [][\A file \in {"bpmn", "pnml"}, f \in ConvFailures :
          DownloadHandler(file, f)
          => IF model_gen = NoObj
             THEN downloaded' = NoDownload /\ notified' = <<"Download failed">>
             ELSE \/ downloaded' = NoDownload /\ notified' = <<"Download failed">>
                  \/ downloaded' = [file |-> file, obj |-> model_gen,
                                    content |-> powl[model_gen]]]_vars

\* An export was requested on a session without a model: it failed and nothing
\* was handed over.
C12_Witness ==
    /\ model_gen = NoObj
    /\ notified = <<"Download failed">>
    /\ downloaded = NoDownload

\* --------------------------------------------------------------------- C13
\* C13: an update is accepted only on a Ready session: when the last handler
\* step reported a failed update (the session is Failed), a click on Update
\* Model dispatches no call.
C13_NoUpdateFromFailed ==
    [][((\E i \in 1..Len(notified) : notified[i] = "Update failed")
          /\ \E k \in ApiKeys, m \in ModelNames : UpdateModelWithFeedback(k, m))
       => UNCHANGED <<calls, next_id>>]_vars

\* --------------------------------------------------------------------- C14
\* C14: the entry a successful update appends to the ledger is the text that was
\* passed to that update's call (never empty, since an empty text is refused
\* before dispatch), whatever happened to the feedback field meanwhile.
C14_LedgerEntryIsTextSent ==
    [][\A c \in calls, f \in ConvFailures :
          (c.phase = "returned" /\ UpdateResume(c, f))
          => (feedback_history' = Append(feedback_history, c.arg) /\ c.arg /= "")]_vars

\* --------------------------------------------------------------------- C15
\* C15: in every reachable state a session without a model has an empty ledger.
C15_NoModelNoLedger == model_gen = NoObj => feedback_history = <<>>

\* --------------------------------------------------------------------- C16
\* C16: the POWL view is rendered from the model alone, so a raise of the
\* Petri-net conversion does not make it fail, when a generation shows its
\* result or when the view is selected; the Petri-net view does not depend on
\* the BPMN conversion.
ImageShows(vs) ==
    image' = [obj |-> model_gen', content |-> GetPowl(model_gen'), view |-> vs]

C16_PowlViewSkipsPetriNet ==
    [][/\ (\E c \in calls : GenerateResume(c, TRUE, "to_petri_net")) => ImageShows("POWL")
       /\ OnViewChange("POWL", "to_petri_net") => ImageShows("POWL")
       /\ OnViewChange("PETRI", "to_bpmn") => ImageShows("PETRI")]_vars

\* --------------------------------------------------------------------- C17
\* C17: whenever no call is in flight, a model is present and the last render
\* did not raise, the image on display is the projection of the current model
\* (the object and its present content) under the selected view.
C17_IdleImageIsCurrentProjection ==
    (calls = {} /\ model_gen /= NoObj /\ ~render_raised)
    => image = [obj |-> model_gen, content |-> powl[model_gen], view |-> view_select]

\* Idle after a successful update that was rendered in the BPMN view: the image
\* shows the updated model in that view.
C17_Witness ==
    /\ calls = {}
    /\ model_gen /= NoObj
    /\ ~render_raised
    /\ notified = <<"Model updated successfully!">>
    /\ view_select = "BPMN"
    /\ powl[model_gen] /= <<>>
    /\ image = [obj |-> model_gen, content |-> powl[model_gen], view |-> "BPMN"]

\* --------------------------------------------------------------------- C18
\* C18: once a successful update has completed, the feedback history on display
\* is the ledger.
C18_ShownHistoryIsLedger ==
    [][\A c \in calls, f \in ConvFailures :
          (c.phase = "returned" /\ UpdateResume(c, f))
          => history_shown' = feedback_history']_vars

\* --------------------------------------------------------------------- C19
\* C19: an upload handler that goes on to its executor call (the one step that
\* takes a new call identity) has parsed its file while the file was in the temp
\* directory (the file it wrote is there when the handler suspends), and whenever no upload handler is in progress the temp
\* directory holds no file, whichever way the handlers ended.
UploadOps ==
    {"generate_model_from_event_log", "generate_model_from_bpmn",
     "generate_model_from_petri_net"}

UploadInProgress == \E c \in calls : c.op \in UploadOps

C19_UploadsAreCleanedUp ==
    /\ [](~UploadInProgress => temp_files = {})
    /\ [][next_id' /= next_id
          => /\ \A n \in LogNames, b \in UploadContents :
                    HandleLogUpload(n, b) => n \in temp_files'
             /\ \A n \in ModelFileNames, b \in UploadContents :
                    HandleModelUpload(n, b) => n \in temp_files']_vars

\* Two upload handlers overlapped: the first ended and removed the directory
\* while the second, a model upload, is still in progress.
C19_Witness ==
    /\ temp_files = {}
    /\ \E c \in calls : c.op = "generate_model_from_bpmn"
    /\ notified = <<"Error during discovery: generation failed">>

====
